---- MODULE Spec2Model ----
(***************************************************************************)
(* Model of the BrightData MCP connection manager                          *)
(* (backend/utils/mcp_manager.py) and of the request layer built on it     *)
(* (backend/app/main.py).                                                  *)
(*                                                                         *)
(* Spec      : the connection manager driven by concurrent callers of      *)
(*             connect() and disconnect(), one step per statement group.   *)
(* SpecChat  : the request layer: chat requests in flight concurrently,    *)
(*             one step per stretch of code between suspension points.     *)
(***************************************************************************)
EXTENDS Integers, Sequences, FiniteSets

(***************************************************************************)
(* Bounds of the model.                                                    *)
(***************************************************************************)
NumCallers == 2
MaxCalls == 4
MaxRequests == 2
MaxEvents == 2

Callers == 1..NumCallers

(* The coroutines of the process: the lifespan hook and one slot per       *)
(* caller or request handler.                                              *)
Lifespan == 0
Tasks == {Lifespan} \cup Callers
(* No coroutine is running: the event loop is free to resume any of them.  *)
NoTask == -1

(* Python's None, for the fields that hold an object identity or None.     *)
None == 0
(* The one StdioServerParameters object a connect() builds.                *)
Params == 1

VARIABLES
    \* ---- MCPConnectionManager fields (mcp_manager.py:16-22)
    _toolset,               \* None or the identity of an MCPToolset
    _process,               \* None (no statement ever stores a Popen here)
    _connection_params,     \* None or Params
    _is_connected,
    _connection_lock,       \* asyncio.Lock: TRUE when locked
    _connection_attempted,
    \* ---- os.environ as read by connect()
    api_token,              \* BRIGHTDATA_API_TOKEN is set
    browser_auth,           \* BROWSER_AUTH is set
    \* ---- the callers of the manager
    pc,                     \* position of each caller
    op,                     \* the call a caller is in: "none", "connect", "disconnect"
    exc,                    \* the exception the caller's try block raised, or "none"
    result,                 \* what the caller's connect() returns
    cleaned,                \* the caller's call has entered _cleanup
    \* ---- history
    calls,                  \* calls started so far
    handlesConstructed,     \* MCPToolset objects constructed so far
    returnedHandles,        \* non-None values returned by connect() so far
    everDisconnect,         \* some disconnect() has been called
    afterFatal,             \* the caller's connect() was made after a fatal one, no disconnect() since
    fatalSeen,              \* a connect() has ended fatally and no disconnect() was called since
    discRun,                \* disconnect() calls completed in a row (capped at 2)
    terminated,             \* handles whose subprocess _cleanup has terminated
    \* ---- main.py module globals (lines 21-23)
    _agent_instance,        \* None, FullAgent or BasicAgent
    agent_tools,            \* the tools list the agent was built with: None for [], else the handle
    _session_service,       \* None or the identity of an InMemorySessionService
    _runner_instance,       \* None or the identity of a Runner
    \* ---- the event loop and the coroutines of main.py
    app,                    \* "starting" until the lifespan hook yields, then "serving"
    running,                \* the coroutine that runs now, or NoTask when all are suspended
    rpc,                    \* position of each coroutine in lifespan / chat / quick_compare
    apc,                    \* position of each coroutine inside get_agent_async
    req,                    \* the request a handler serves: its locals and its result
    \* ---- history
    requests,               \* requests started so far
    servicesConstructed,    \* InMemorySessionService objects constructed so far
    runnersConstructed,     \* Runner objects constructed so far
    sessionsCreated,        \* create_session calls that returned a session
    eventsYielded           \* events the runner has yielded so far, over all requests

mgrVars == <<_toolset, _process, _connection_params, _is_connected,
             _connection_lock, _connection_attempted>>
envVars == <<api_token, browser_auth>>
callVars == <<pc, op, exc, result, cleaned>>
histVars == <<calls, handlesConstructed, returnedHandles, everDisconnect,
              afterFatal, fatalSeen, discRun, terminated>>
chatVars == <<_agent_instance, agent_tools, _session_service, _runner_instance,
              app, running, rpc, apc, req, requests, servicesConstructed,
              runnersConstructed, sessionsCreated, eventsYielded>>
mgrAll == <<mgrVars, envVars, callVars, histVars>>
vars == <<mgrVars, envVars, callVars, histVars, chatVars>>

(* The errors an external constructor can raise, by what line 80 sees in   *)
(* str(e): the list-roots message, or any other message.                   *)
Outcomes == {"ok", "tolerated", "fatal"}

(* mcp_manager.py:80 and :89 -- the test on the exception's message.       *)
IsTolerated(e) == e = "tolerated"

(* mcp_manager.py:154-157 -- the is_connected property.                    *)
is_connected == _is_connected /\ _toolset # None

(* mcp_manager.py:159-162 -- the toolset property.                         *)
toolset == IF _is_connected THEN _toolset ELSE None

(***************************************************************************)
(* Text. A string is a sequence of characters; the fixed messages of       *)
(* main.py are sequences whose one visible character stands for their      *)
(* (non-blank) wording.                                                    *)
(***************************************************************************)
Whitespace == {" ", "\n"}

RECURSIVE LStrip(_)
LStrip(s) == IF s # <<>> /\ Head(s) \in Whitespace THEN LStrip(Tail(s)) ELSE s

RECURSIVE RStrip(_)
RStrip(s) ==
    IF s # <<>> /\ s[Len(s)] \in Whitespace
    THEN RStrip(SubSeq(s, 1, Len(s) - 1))
    ELSE s

(* str.strip() *)
Strip(s) == RStrip(LStrip(s))

(* The texts an event part, a message or a request can carry. *)
Texts == {<<>>, <<" ">>, <<"a">>}
Messages == {<<>>, <<" ">>, <<"a">>}

(* main.py:530 -- "\n\n<Note: Request timed out ... partial results>"      *)
TimeoutNotice == <<"\n", "\n", "N">>
(* main.py:532 -- "<Request timed out> after 90 seconds ..."               *)
TimeoutMessage == <<"T">>
(* main.py:536 -- "I encountered an error while processing ..."            *)
ErrorMessage == <<"E">>
(* main.py:543 -- "I processed your request, but I'm having trouble ..."   *)
FallbackMessage == <<"F">>
(* main.py:450 -- "\n\n<Quick comparison completed> in 30 seconds."        *)
QuickNotice == <<"\n", "\n", "Q">>
(* main.py:453 -- "Quick comparison completed - check results above"       *)
QuickFallback == <<"C">>

(* main.py:527-532 -- the TimeoutError handler of chat.                    *)
OnTimeoutDropsPartial(response_text) == TimeoutMessage

OnTimeout(response_text) ==
    IF Strip(response_text) # <<>>
    THEN response_text \o TimeoutNotice
    ELSE TimeoutMessage

(* main.py:538-543 -- trim the buffer, fall back when nothing is left.     *)
FinalizeNoFallback(response_text) == Strip(response_text)

Finalize(response_text) ==
    LET stripped == Strip(response_text)
    IN  IF stripped = <<>> THEN FallbackMessage ELSE stripped

(* main.py:449-453 -- quick_compare: the notice on timeout, and            *)
(* response_text.strip() or the fixed text.                                *)
QuickOnTimeout(response_text) == response_text \o QuickNotice
QuickFinalize(response_text) ==
    LET stripped == Strip(response_text)
    IN  IF stripped = <<>> THEN QuickFallback ELSE stripped

(***************************************************************************)
(* Events of runner.run_async. An attribute of an event is described by a  *)
(* record: tag says what hasattr/isinstance see, s is the string it        *)
(* carries, parts the texts of its parts (<<>> for a part whose text is    *)
(* missing, None or "").                                                   *)
(*   absent    the attribute does not exist                                *)
(*   none      the attribute is None                                       *)
(*   str       a str                                                       *)
(*   parts     an object with .parts, a list                               *)
(*   nullparts an object with .parts = None                                *)
(*   text      an object without .parts, with .text                        *)
(*   obj       an object with neither                                      *)
(*   content   (message only) an object with .content, described by s/parts/inner *)
(***************************************************************************)
Absent == [tag |-> "absent", inner |-> "absent", s |-> <<>>, parts |-> <<>>]
NoneV == [tag |-> "none", inner |-> "absent", s |-> <<>>, parts |-> <<>>]
StrV(x) == [tag |-> "str", inner |-> "absent", s |-> x, parts |-> <<>>]
PartsV(ps) == [tag |-> "parts", inner |-> "absent", s |-> <<>>, parts |-> ps]
NullPartsV == [tag |-> "nullparts", inner |-> "absent", s |-> <<>>, parts |-> <<>>]
TextV(x) == [tag |-> "text", inner |-> "absent", s |-> x, parts |-> <<>>]
(* A message object whose .content is the value c. *)
WithContent(c) == [tag |-> "content", inner |-> c.tag, s |-> c.s, parts |-> c.parts]
(* The .content of such a message. *)
ContentOf(m) == [tag |-> m.inner, inner |-> "absent", s |-> m.s, parts |-> m.parts]

Event(c, m, t) == [content |-> c, message |-> m, text |-> t]

(* The loop variable `event` before the stream has yielded anything to it. *)
Unbound == [tag |-> "unbound", inner |-> "absent", s |-> <<>>, parts |-> <<>>]
NoEvent == Event(Unbound, Unbound, Unbound)

Events ==
    { Event(PartsV(<< <<"a">> >>), Absent, Absent),
      Event(PartsV(<< <<" ">> >>), Absent, Absent),
      Event(PartsV(<< <<>>, <<"a">> >>), Absent, Absent),
      Event(PartsV(<< <<>> >>), Absent, Absent),
      Event(NullPartsV, Absent, Absent),
      Event(NoneV, Absent, StrV(<<"a">>)),
      Event(TextV(<<"a">>), Absent, Absent),
      Event(StrV(<<"a">>), Absent, Absent),
      Event(Absent, WithContent(PartsV(<< <<"a">> >>)), Absent),
      Event(Absent, WithContent(TextV(<<"a">>)), Absent),
      Event(Absent, StrV(<<"a">>), Absent),
      Event(Absent, NoneV, StrV(<<"a">>)),
      Event(Absent, Absent, Absent) }

(* The result of handling one event: the text appended to the buffer, or   *)
(* an exception raised by the handling code.                               *)
Appended(x) == [raised |-> FALSE, out |-> x]
Raised == [raised |-> TRUE, out |-> <<>>]

(* main.py:502-504 -- for part in parts: if hasattr(part, 'text') and      *)
(* part.text: response_text += str(part.text) + "\n"                       *)
RECURSIVE PartsText(_)
PartsText(ps) ==
    IF ps = <<>> THEN <<>>
    ELSE (IF Head(ps) # <<>> THEN Head(ps) \o <<"\n">> ELSE <<>>) \o PartsText(Tail(ps))

(* hasattr(x, 'parts') *)
HasParts(x) == x.tag \in {"parts", "nullparts"}

(* Iterating x.parts: a TypeError when it is None. *)
IterParts(x) == IF x.tag = "nullparts" THEN Raised ELSE Appended(PartsText(x.parts))

(* main.py:500-522 -- the body of the async for of run_agent_with_events.  *)
ExtractChat(event) ==
    IF event.content.tag # "absent"
    THEN IF HasParts(event.content) THEN IterParts(event.content)
         ELSE IF event.content.tag = "text" /\ event.content.s # <<>>
              THEN Appended(event.content.s \o <<"\n">>)
         ELSE IF event.content.tag = "str"
              THEN Appended(event.content.s \o <<"\n">>)
         ELSE Appended(<<>>)
    ELSE IF event.message.tag \in {"parts", "nullparts", "text", "obj", "content"}
            \/ (event.message.tag = "str" /\ event.message.s # <<>>)
    THEN IF event.message.tag = "content"
         THEN LET c == ContentOf(event.message)
              IN  IF HasParts(c) THEN IterParts(c)
                  ELSE IF c.tag = "text" /\ c.s # <<>>
                       THEN Appended(c.s \o <<"\n">>)
                  ELSE Appended(<<>>)
         ELSE IF event.message.tag = "str"
              THEN Appended(event.message.s \o <<"\n">>)
         ELSE Appended(<<>>)
    ELSE IF event.text.tag = "str" /\ event.text.s # <<>>
    THEN Appended(event.text.s \o <<"\n">>)
    ELSE Appended(<<>>)

(* main.py:435-445 -- the body of the async for of run_quick_agent.        *)
ExtractQuick(event) ==
    IF event.content.tag # "absent" /\ HasParts(event.content)
    THEN IterParts(event.content)
    ELSE Appended(<<>>)

(* The agents get_agent_async can build: the one of lines 57-258, with the *)
(* tools, and the fallback of lines 263-267, without.                      *)
FullAgent == 1
BasicAgent == 2

(* The locals and the result of one request. response_text is the buffer   *)
(* as the event loop of the request filled it; response is the text of     *)
(* the body returned, status its status field, or the status code of the   *)
(* HTTPException raised instead; service and runner are the shared objects *)
(* the request obtained, session whether create_session gave it a session. *)
(* error is the exception the handler's except clause caught, degraded     *)
(* whether the connect() made while serving the request failed, producer   *)
(* the state of the coroutine wait_for runs for the request, event the     *)
(* event the loop body has in hand. The last three fields are the snapshot *)
(* health_check and mcp_status return.                                     *)
NoRequest ==
    [kind |-> "none", message |-> <<>>, response_text |-> <<>>,
     outcome |-> "none", status |-> "none", response |-> <<>>,
     service |-> None, runner |-> None, session |-> FALSE,
     error |-> "none", degraded |-> FALSE, producer |-> "none",
     event |-> NoEvent,
     mcp_connected |-> FALSE, tools_count |-> 0, agent_available |-> FALSE]

Init ==
    /\ _toolset = None
    /\ _process = None
    /\ _connection_params = None
    /\ _is_connected = FALSE
    /\ _connection_lock = FALSE
    /\ _connection_attempted = FALSE
    /\ api_token \in BOOLEAN
    /\ browser_auth \in BOOLEAN
    /\ pc = [p \in Tasks |-> "idle"]
    /\ op = [p \in Tasks |-> "none"]
    /\ exc = [p \in Tasks |-> "none"]
    /\ result = [p \in Tasks |-> None]
    /\ cleaned = [p \in Tasks |-> FALSE]
    /\ calls = 0
    /\ handlesConstructed = 0
    /\ returnedHandles = {}
    /\ everDisconnect = FALSE
    /\ afterFatal = [p \in Tasks |-> FALSE]
    /\ fatalSeen = FALSE
    /\ discRun = 0
    /\ terminated = {}
    /\ _agent_instance = None
    /\ agent_tools = None
    /\ _session_service = None
    /\ _runner_instance = None
    /\ app = "starting"
    /\ running = NoTask
    /\ rpc = [t \in Tasks |-> "idle"]
    /\ apc = [t \in Tasks |-> "none"]
    /\ req = [t \in Tasks |-> NoRequest]
    /\ requests = 0
    /\ servicesConstructed = 0
    /\ runnersConstructed = 0
    /\ sessionsCreated = 0
    /\ eventsYielded = 0

Goto(p, l) == pc' = [pc EXCEPT ![p] = l]

(***************************************************************************)
(* connect()                                                               *)
(***************************************************************************)

(* A caller calls connect(): it now waits for the lock (line 26).          *)
CallConnect(p) ==
    /\ pc[p] = "idle"
    /\ calls' = calls + 1
    /\ Goto(p, "c_acquire")
    /\ op' = [op EXCEPT ![p] = "connect"]
    /\ exc' = [exc EXCEPT ![p] = "none"]
    /\ result' = [result EXCEPT ![p] = None]
    /\ cleaned' = [cleaned EXCEPT ![p] = FALSE]
    /\ afterFatal' = [afterFatal EXCEPT ![p] = fatalSeen]
    /\ UNCHANGED <<mgrVars, envVars, handlesConstructed, returnedHandles,
                   everDisconnect, terminated, fatalSeen, discRun>>

StartConnect(p) ==
    /\ calls < MaxCalls
    /\ CallConnect(p)
    /\ UNCHANGED chatVars

ConnectAcquireNoLock(p) ==
    /\ pc[p] = "c_acquire"
    /\ _connection_lock' = TRUE
    /\ Goto(p, "c_check")
    /\ discRun' = 0
    /\ UNCHANGED <<chatVars, _toolset, _process, _connection_params, _is_connected,
                   _connection_attempted, envVars, op, exc, result, cleaned,
                   calls, handlesConstructed, returnedHandles, everDisconnect, terminated,
                   afterFatal, fatalSeen>>

(* Line 26: async with self._connection_lock -- acquire.                   *)
ConnectAcquire(p) ==
    /\ pc[p] = "c_acquire"
    /\ _connection_lock = FALSE
    /\ _connection_lock' = TRUE
    /\ Goto(p, "c_check")
    /\ discRun' = 0
    /\ UNCHANGED <<chatVars, _toolset, _process, _connection_params, _is_connected,
                   _connection_attempted, envVars, op, exc, result, cleaned,
                   calls, handlesConstructed, returnedHandles, everDisconnect, terminated,
                   afterFatal, fatalSeen>>

ConnectCheckNoReuse(p) ==
    /\ pc[p] = "c_check"
    /\ _connection_attempted' = TRUE
    /\ Goto(p, "c_validate")
    /\ UNCHANGED <<chatVars, _toolset, _process, _connection_params, _is_connected,
                   _connection_lock, envVars, op, exc, result, cleaned, histVars>>

(* Lines 27-37: the reuse path, the latched path, or the start of an       *)
(* attempt.                                                                *)
ConnectCheck(p) ==
    /\ pc[p] = "c_check"
    /\ IF _is_connected /\ _toolset # None
       THEN /\ result' = [result EXCEPT ![p] = _toolset]
            /\ Goto(p, "c_release")
            /\ UNCHANGED _connection_attempted
       ELSE IF _connection_attempted /\ ~_is_connected
       THEN /\ result' = [result EXCEPT ![p] = None]
            /\ Goto(p, "c_release")
            /\ UNCHANGED _connection_attempted
       ELSE /\ _connection_attempted' = TRUE
            /\ Goto(p, "c_validate")
            /\ UNCHANGED result
    /\ UNCHANGED <<chatVars, _toolset, _process, _connection_params, _is_connected,
                   _connection_lock, envVars, op, exc, cleaned, histVars>>

ConnectValidateSkipped(p) ==
    /\ pc[p] = "c_validate"
    /\ Goto(p, "c_params")
    /\ UNCHANGED <<chatVars, mgrVars, envVars, op, exc, result, cleaned, histVars>>

(* Lines 40-49: both secrets must be set, else ValueError.                 *)
ConnectValidate(p) ==
    /\ pc[p] = "c_validate"
    /\ IF ~api_token \/ ~browser_auth
       THEN /\ exc' = [exc EXCEPT ![p] = "ValueError"]
            /\ Goto(p, "c_except")
       ELSE /\ Goto(p, "c_params")
            /\ UNCHANGED exc
    /\ UNCHANGED <<chatVars, mgrVars, envVars, op, result, cleaned, histVars>>

(* Lines 51-60: build the environment, construct the parameters once.      *)
(* The StdioServerParameters constructor is external: it may raise.        *)
ConnectParams(p) ==
    /\ pc[p] = "c_params"
    /\ IF _connection_params = None
       THEN \E o \in Outcomes :
              IF o = "ok"
              THEN /\ _connection_params' = Params
                   /\ Goto(p, "c_toolset")
                   /\ UNCHANGED exc
              ELSE /\ exc' = [exc EXCEPT ![p] = o]
                   /\ Goto(p, "c_except")
                   /\ UNCHANGED _connection_params
       ELSE /\ Goto(p, "c_toolset")
            /\ UNCHANGED <<chatVars, _connection_params, exc>>
    /\ UNCHANGED <<chatVars, _toolset, _process, _is_connected, _connection_lock,
                   _connection_attempted, envVars, op, result, cleaned, histVars>>

(* Lines 62-66: construct the toolset once. The MCPToolset constructor is  *)
(* external: it may raise, and then nothing is assigned.                   *)
ConnectToolset(p) ==
    /\ pc[p] = "c_toolset"
    /\ IF _toolset = None
       THEN \E o \in Outcomes :
              IF o = "ok"
              THEN /\ _toolset' = handlesConstructed + 1
                   /\ handlesConstructed' = handlesConstructed + 1
                   /\ Goto(p, "c_test")
                   /\ UNCHANGED exc
              ELSE /\ exc' = [exc EXCEPT ![p] = o]
                   /\ Goto(p, "c_except")
                   /\ UNCHANGED <<chatVars, _toolset, handlesConstructed>>
       ELSE /\ Goto(p, "c_test")
            /\ UNCHANGED <<chatVars, _toolset, handlesConstructed, exc>>
    /\ UNCHANGED <<chatVars, _process, _connection_params, _is_connected, _connection_lock,
                   _connection_attempted, envVars, op, result, cleaned,
                   calls, returnedHandles, everDisconnect, terminated, afterFatal,
                   fatalSeen, discRun>>

(* Lines 68-69 and 112-124: _test_connection. Its RuntimeError for a       *)
(* missing toolset is caught at line 122, so nothing reaches connect().    *)
ConnectTestRaises(p) ==
    /\ pc[p] = "c_test"
    /\ \E o \in {"ok", "fatal"} :
         IF o = "ok"
         THEN Goto(p, "c_mark") /\ UNCHANGED exc
         ELSE Goto(p, "c_except") /\ exc' = [exc EXCEPT ![p] = o]
    /\ UNCHANGED <<chatVars, mgrVars, envVars, op, result, cleaned, histVars>>

ConnectTest(p) ==
    /\ pc[p] = "c_test"
    /\ Goto(p, "c_mark")
    /\ UNCHANGED <<chatVars, mgrVars, envVars, op, exc, result, cleaned, histVars>>

(* Lines 71-74: mark connected, return the toolset.                        *)
ConnectMark(p) ==
    /\ pc[p] = "c_mark"
    /\ _is_connected' = TRUE
    /\ result' = [result EXCEPT ![p] = _toolset]
    /\ Goto(p, "c_release")
    /\ UNCHANGED <<chatVars, _toolset, _process, _connection_params, _connection_lock,
                   _connection_attempted, envVars, op, exc, cleaned, histVars>>

ConnectExceptNoCleanup(p) ==
    /\ pc[p] = "c_except"
    /\ cleaned' = [cleaned EXCEPT ![p] = TRUE]
    /\ result' = [result EXCEPT ![p] = None]
    /\ Goto(p, "c_release")
    /\ UNCHANGED <<chatVars, mgrVars, envVars, op, exc, histVars>>

ConnectExceptDisconnects(p) ==
    /\ pc[p] = "c_except"
    /\ cleaned' = [cleaned EXCEPT ![p] = TRUE]
    /\ result' = [result EXCEPT ![p] = None]
    /\ Goto(p, "d_acquire")
    /\ UNCHANGED <<chatVars, mgrVars, envVars, op, exc, histVars>>

(* Lines 76-94: the handler. A tolerated message with a toolset present    *)
(* marks connected and returns the toolset (80-91); anything else runs     *)
(* _cleanup and returns None (93-94).                                      *)
ConnectExcept(p) ==
    /\ pc[p] = "c_except"
    /\ IF IsTolerated(exc[p]) /\ _toolset # None
       THEN /\ _is_connected' = TRUE
            /\ result' = [result EXCEPT ![p] = _toolset]
            /\ Goto(p, "c_release")
            /\ UNCHANGED cleaned
       ELSE /\ cleaned' = [cleaned EXCEPT ![p] = TRUE]
            /\ result' = [result EXCEPT ![p] = None]
            /\ Goto(p, "cl_process")
            /\ UNCHANGED _is_connected
    /\ UNCHANGED <<chatVars, _toolset, _process, _connection_params, _connection_lock,
                   _connection_attempted, envVars, op, exc, histVars>>

(* Leaving the async with block of connect(): the lock is released and     *)
(* the caller has its return value.                                        *)
ConnectRelease(p) ==
    /\ pc[p] = "c_release"
    /\ _connection_lock' = FALSE
    /\ Goto(p, "idle")
    /\ returnedHandles' = IF result[p] # None
                          THEN returnedHandles \cup {result[p]}
                          ELSE returnedHandles
    /\ fatalSeen' = (fatalSeen \/ cleaned[p])
    /\ UNCHANGED <<chatVars, _toolset, _process, _connection_params, _is_connected,
                   _connection_attempted, envVars, op, exc, result, cleaned,
                   calls, handlesConstructed, everDisconnect, terminated, afterFatal, discRun>>

(***************************************************************************)
(* disconnect()                                                            *)
(***************************************************************************)

(* A caller calls disconnect(): it now waits for the lock (line 128).      *)
CallDisconnect(p) ==
    /\ pc[p] = "idle"
    /\ calls' = calls + 1
    /\ Goto(p, "d_acquire")
    /\ op' = [op EXCEPT ![p] = "disconnect"]
    /\ exc' = [exc EXCEPT ![p] = "none"]
    /\ result' = [result EXCEPT ![p] = None]
    /\ cleaned' = [cleaned EXCEPT ![p] = FALSE]
    /\ everDisconnect' = TRUE
    /\ fatalSeen' = FALSE
    /\ afterFatal' = [q \in Tasks |-> FALSE]
    /\ UNCHANGED <<mgrVars, envVars, handlesConstructed, returnedHandles,
                   discRun, terminated>>

StartDisconnect(p) ==
    /\ calls < MaxCalls
    /\ CallDisconnect(p)
    /\ UNCHANGED chatVars

(* Line 128: async with self._connection_lock -- acquire; line 129 calls   *)
(* _cleanup.                                                               *)
DisconnectAcquire(p) ==
    /\ pc[p] = "d_acquire"
    /\ _connection_lock = FALSE
    /\ _connection_lock' = TRUE
    /\ cleaned' = [cleaned EXCEPT ![p] = TRUE]
    /\ Goto(p, "cl_process")
    /\ UNCHANGED <<chatVars, _toolset, _process, _connection_params, _is_connected,
                   _connection_attempted, envVars, op, exc, result, histVars>>

(* Leaving the async with block of disconnect().                           *)
DisconnectRelease(p) ==
    /\ pc[p] = "d_release"
    /\ _connection_lock' = FALSE
    /\ Goto(p, "idle")
    /\ discRun' = IF discRun < 2 THEN discRun + 1 ELSE discRun
    /\ UNCHANGED <<chatVars, _toolset, _process, _connection_params, _is_connected,
                   _connection_attempted, envVars, op, exc, result, cleaned,
                   calls, handlesConstructed, returnedHandles, everDisconnect, terminated,
                   afterFatal, fatalSeen>>

(***************************************************************************)
(* _cleanup(), run by disconnect() and by the fatal path of connect(),     *)
(* in both cases with the lock already held by the caller.                 *)
(***************************************************************************)

(* Lines 134-143: terminate the process self._process refers to, if there  *)
(* is one; a failure of terminate/kill is caught at line 142. Nothing else *)
(* in _cleanup ends a subprocess or closes the toolset.                    *)
CleanupProcess(p) ==
    /\ pc[p] = "cl_process"
    /\ Goto(p, "cl_toolset")
    /\ IF _process # None
       THEN \E o \in {"terminated", "warning"} :
              terminated' = IF o = "terminated"
                            THEN terminated \cup {_process}
                            ELSE terminated
       ELSE UNCHANGED terminated
    /\ UNCHANGED <<chatVars, mgrVars, envVars, op, exc, result, cleaned,
                   calls, handlesConstructed, returnedHandles, everDisconnect,
                   afterFatal, fatalSeen, discRun>>

(* Line 145. *)
CleanupToolset(p) ==
    /\ pc[p] = "cl_toolset"
    /\ _toolset' = None
    /\ Goto(p, "cl_procref")
    /\ UNCHANGED <<chatVars, _process, _connection_params, _is_connected, _connection_lock,
                   _connection_attempted, envVars, op, exc, result, cleaned, histVars>>

(* Line 146. *)
CleanupProcRef(p) ==
    /\ pc[p] = "cl_procref"
    /\ _process' = None
    /\ Goto(p, "cl_params")
    /\ UNCHANGED <<chatVars, _toolset, _connection_params, _is_connected, _connection_lock,
                   _connection_attempted, envVars, op, exc, result, cleaned, histVars>>

CleanupParamsKeep(p) ==
    /\ pc[p] = "cl_params"
    /\ Goto(p, "cl_connected")
    /\ UNCHANGED <<chatVars, mgrVars, envVars, op, exc, result, cleaned, histVars>>

(* Line 147. *)
CleanupParams(p) ==
    /\ pc[p] = "cl_params"
    /\ _connection_params' = None
    /\ Goto(p, "cl_connected")
    /\ UNCHANGED <<chatVars, _toolset, _process, _is_connected, _connection_lock,
                   _connection_attempted, envVars, op, exc, result, cleaned, histVars>>

CleanupConnectedKeep(p) ==
    /\ pc[p] = "cl_connected"
    /\ Goto(p, "cl_attempted")
    /\ UNCHANGED <<chatVars, mgrVars, envVars, op, exc, result, cleaned, histVars>>

(* Line 148. *)
CleanupConnected(p) ==
    /\ pc[p] = "cl_connected"
    /\ _is_connected' = FALSE
    /\ Goto(p, "cl_attempted")
    /\ UNCHANGED <<chatVars, _toolset, _process, _connection_params, _connection_lock,
                   _connection_attempted, envVars, op, exc, result, cleaned, histVars>>

(* Line 149, then the return to the caller of _cleanup: line 94 of         *)
(* connect() or the end of disconnect().                                   *)
CleanupAttemptedKeep(p) ==
    /\ pc[p] = "cl_attempted"
    /\ Goto(p, IF op[p] = "connect" THEN "c_release" ELSE "d_release")
    /\ UNCHANGED <<chatVars, mgrVars, envVars, op, exc, result, cleaned, histVars>>

CleanupAttempted(p) ==
    /\ pc[p] = "cl_attempted"
    /\ _connection_attempted' = FALSE
    /\ Goto(p, IF op[p] = "connect" THEN "c_release" ELSE "d_release")
    /\ UNCHANGED <<chatVars, _toolset, _process, _connection_params, _is_connected,
                   _connection_lock, envVars, op, exc, result, cleaned, histVars>>

Next ==
    \E p \in Callers :
        \/ StartConnect(p)
        \/ ConnectAcquire(p)
        \/ ConnectCheck(p)
        \/ ConnectValidate(p)
        \/ ConnectParams(p)
        \/ ConnectToolset(p)
        \/ ConnectTest(p)
        \/ ConnectMark(p)
        \/ ConnectExcept(p)
        \/ ConnectRelease(p)
        \/ StartDisconnect(p)
        \/ DisconnectAcquire(p)
        \/ DisconnectRelease(p)
        \/ CleanupProcess(p)
        \/ CleanupToolset(p)
        \/ CleanupProcRef(p)
        \/ CleanupParams(p)
        \/ CleanupConnected(p)
        \/ CleanupAttempted(p)

Spec == Init /\ [][Next]_vars

(* The steps a caller makes once its call has started. The event loop runs *)
(* every coroutine that is ready, and asyncio.Lock wakes a waiter when the *)
(* lock is released: while some call can go on, some call does go on.      *)
CallStep(p) ==
    \/ ConnectAcquire(p)
    \/ ConnectCheck(p)
    \/ ConnectValidate(p)
    \/ ConnectParams(p)
    \/ ConnectToolset(p)
    \/ ConnectTest(p)
    \/ ConnectMark(p)
    \/ ConnectExcept(p)
    \/ ConnectRelease(p)
    \/ DisconnectAcquire(p)
    \/ DisconnectRelease(p)
    \/ CleanupProcess(p)
    \/ CleanupToolset(p)
    \/ CleanupProcRef(p)
    \/ CleanupParams(p)
    \/ CleanupConnected(p)
    \/ CleanupAttempted(p)

SpecFair == Spec /\ WF_vars(\E p \in Callers : CallStep(p))

(***************************************************************************)
(* The request layer (main.py). A coroutine runs without interruption from *)
(* one suspension point to the next: `running` names the coroutine that    *)
(* has the event loop. Nothing between the start of a handler and its      *)
(* create_session call suspends: get_shared_runner, get_agent_async,       *)
(* get_mcp_tools and an uncontended connect() await only coroutines that   *)
(* return without waiting.                                                 *)
(***************************************************************************)
SetReq(t, r) == req' = [req EXCEPT ![t] = r]
GotoR(t, l) == rpc' = [rpc EXCEPT ![t] = l]

(* main.py:553-557 -- except Exception in chat: whatever was raised in the *)
(* body, the HTTPException of line 466 included, becomes a 500.            *)
OuterExceptStatus(e) == "500"

(* main.py:458-459 -- except Exception in quick_compare.                   *)
QuickExceptStatus(e) == "error"

(* The handler's exception handler ends the request; the coroutine still   *)
(* runs until it has returned.                                             *)
Fail(t, e) ==
    /\ SetReq(t, [req[t] EXCEPT
                    !.outcome = "error",
                    !.error = e,
                    !.producer = IF req[t].producer = "running"
                                 THEN "failed" ELSE req[t].producer,
                    !.status = IF req[t].kind = "chat"
                               THEN OuterExceptStatus(e)
                               ELSE QuickExceptStatus(e)])
    /\ GotoR(t, "done")
    /\ running' = t

(* main.py:271-277 -- the lifespan hook starts and calls get_agent_async.  *)
LifespanStart ==
    /\ app = "starting"
    /\ running = NoTask
    /\ rpc[Lifespan] = "idle"
    /\ running' = Lifespan
    /\ GotoR(Lifespan, "agent")
    /\ apc' = [apc EXCEPT ![Lifespan] = "check"]
    /\ UNCHANGED <<mgrAll, _agent_instance, agent_tools, _session_service,
                   _runner_instance, app, req, requests, servicesConstructed,
                   runnersConstructed, sessionsCreated, eventsYielded>>

(* main.py:278-284 -- get_agent_async returned or raised (caught at 281);  *)
(* the hook yields and the application serves requests.                    *)
LifespanYield ==
    /\ running = Lifespan
    /\ rpc[Lifespan] = "agent"
    /\ apc[Lifespan] \in {"return", "raise"}
    /\ app' = "serving"
    /\ running' = NoTask
    /\ GotoR(Lifespan, "yield")
    /\ apc' = [apc EXCEPT ![Lifespan] = "none"]
    /\ exc' = [exc EXCEPT ![Lifespan] = "none"]
    /\ SetReq(Lifespan, NoRequest)
    /\ UNCHANGED <<mgrVars, envVars, pc, op, result, cleaned, histVars,
                   _agent_instance, agent_tools, _session_service,
                   _runner_instance, requests, servicesConstructed,
                   runnersConstructed, sessionsCreated, eventsYielded>>

(* main.py:286-289 and 35-39 -- the server shuts down: once the requests   *)
(* in flight have returned, the lifespan hook resumes after its yield and  *)
(* cleanup_mcp calls disconnect() on the manager.                          *)
LifespanShutdown ==
    /\ app = "serving"
    /\ running = NoTask
    /\ rpc[Lifespan] = "yield"
    /\ \A t \in Callers : rpc[t] = "idle"
    /\ app' = "stopping"
    /\ running' = Lifespan
    /\ GotoR(Lifespan, "cleanup")
    /\ CallDisconnect(Lifespan)
    /\ UNCHANGED <<_agent_instance, agent_tools, _session_service,
                   _runner_instance, apc, req, requests, servicesConstructed,
                   runnersConstructed, sessionsCreated, eventsYielded>>

(* main.py:40-42 and 289-291 -- disconnect() has returned; the hook ends.  *)
LifespanStop ==
    /\ app = "stopping"
    /\ running = Lifespan
    /\ rpc[Lifespan] = "cleanup"
    /\ pc[Lifespan] = "idle"
    /\ app' = "stopped"
    /\ running' = NoTask
    /\ GotoR(Lifespan, "stopped")
    /\ UNCHANGED <<mgrAll, _agent_instance, agent_tools, _session_service,
                   _runner_instance, apc, req, requests, servicesConstructed,
                   runnersConstructed, sessionsCreated, eventsYielded>>

(* main.py:44-53 and 25-29 -- get_agent_async: return the cached agent, or *)
(* call get_mcp_tools, which calls connect() on the manager.               *)
AgentCheckNoCache(t) ==
    /\ running = t
    /\ rpc[t] = "agent"
    /\ apc[t] = "check"
    /\ apc' = [apc EXCEPT ![t] = "tools"]
    /\ CallConnect(t)
    /\ UNCHANGED <<_agent_instance, agent_tools, _session_service,
                   _runner_instance, app, running, rpc, req, requests,
                   servicesConstructed, runnersConstructed, sessionsCreated,
                   eventsYielded>>

AgentCheck(t) ==
    /\ running = t
    /\ rpc[t] = "agent"
    /\ apc[t] = "check"
    /\ IF _agent_instance # None
       THEN /\ apc' = [apc EXCEPT ![t] = "return"]
            /\ UNCHANGED mgrAll
       ELSE /\ apc' = [apc EXCEPT ![t] = "tools"]
            /\ CallConnect(t)
    /\ UNCHANGED <<_agent_instance, agent_tools, _session_service,
                   _runner_instance, app, running, rpc, req, requests,
                   servicesConstructed, runnersConstructed, sessionsCreated,
                   eventsYielded>>

(* main.py:30 and 54-268 -- connect() has returned: tools is [toolset] or  *)
(* []; Agent(...) is built with them; if that raises, the fallback agent   *)
(* is built without tools (260-268); if that raises too, the exception     *)
(* leaves get_agent_async. The frame of the connect() call is gone.        *)
AgentBuildPropagates(t) ==
    /\ running = t
    /\ rpc[t] = "agent"
    /\ apc[t] = "tools"
    /\ pc[t] = "idle"
    /\ IF cleaned[t]
       THEN /\ apc' = [apc EXCEPT ![t] = "raise"]
            /\ exc' = exc
            /\ UNCHANGED <<_agent_instance, agent_tools>>
       ELSE /\ _agent_instance' = FullAgent
            /\ agent_tools' = result[t]
            /\ apc' = [apc EXCEPT ![t] = "return"]
            /\ exc' = [exc EXCEPT ![t] = "none"]
    /\ SetReq(t, [req[t] EXCEPT !.degraded = cleaned[t]])
    /\ op' = [op EXCEPT ![t] = "none"]
    /\ result' = [result EXCEPT ![t] = None]
    /\ cleaned' = [cleaned EXCEPT ![t] = FALSE]
    /\ afterFatal' = [afterFatal EXCEPT ![t] = FALSE]
    /\ UNCHANGED <<mgrVars, envVars, pc, calls, handlesConstructed,
                   returnedHandles, everDisconnect, terminated, fatalSeen, discRun,
                   _session_service, _runner_instance, app, running,
                   rpc, requests, servicesConstructed, runnersConstructed,
                   sessionsCreated, eventsYielded>>

AgentBuild(t) ==
    /\ running = t
    /\ rpc[t] = "agent"
    /\ apc[t] = "tools"
    /\ pc[t] = "idle"
    /\ \E o \in {"ok", "fallback", "raise"} :
         CASE o = "ok" ->
                /\ _agent_instance' = FullAgent
                /\ agent_tools' = result[t]
                /\ apc' = [apc EXCEPT ![t] = "return"]
                /\ exc' = [exc EXCEPT ![t] = "none"]
           [] o = "fallback" ->
                /\ _agent_instance' = BasicAgent
                /\ agent_tools' = None
                /\ apc' = [apc EXCEPT ![t] = "return"]
                /\ exc' = [exc EXCEPT ![t] = "none"]
           [] o = "raise" ->
                /\ apc' = [apc EXCEPT ![t] = "raise"]
                /\ exc' = [exc EXCEPT ![t] = "AgentError"]
                /\ UNCHANGED <<_agent_instance, agent_tools>>
    /\ SetReq(t, [req[t] EXCEPT !.degraded = cleaned[t]])
    /\ op' = [op EXCEPT ![t] = "none"]
    /\ result' = [result EXCEPT ![t] = None]
    /\ cleaned' = [cleaned EXCEPT ![t] = FALSE]
    /\ afterFatal' = [afterFatal EXCEPT ![t] = FALSE]
    /\ UNCHANGED <<mgrVars, envVars, pc, calls, handlesConstructed,
                   returnedHandles, everDisconnect, terminated, fatalSeen, discRun,
                   _session_service, _runner_instance, app, running,
                   rpc, requests, servicesConstructed, runnersConstructed,
                   sessionsCreated, eventsYielded>>

(* Starlette runs each request in a handler coroutine of its own. The      *)
(* slots of Callers name those coroutines, and a new request takes the     *)
(* first slot whose coroutine has returned: which free slot it takes       *)
(* changes nothing but the name.                                           *)
FreeSlot(t) ==
    /\ rpc[t] = "idle"
    /\ \A u \in Callers : u < t => rpc[u] # "idle"

(* main.py:462-468 -- chat is called: a blank message raises               *)
(* HTTPException(400) at line 466, inside the try of line 463, so the      *)
(* handler of line 553 receives it.                                        *)
ChatBegin(t) ==
    /\ app = "serving"
    /\ running = NoTask
    /\ FreeSlot(t)
    /\ requests < MaxRequests
    /\ requests' = requests + 1
    /\ \E m \in Messages :
         IF Strip(m) = <<>>
         THEN /\ SetReq(t, [NoRequest EXCEPT
                              !.kind = "chat", !.message = m,
                              !.outcome = "rejected",
                              !.error = "HTTP400",
                              !.status = OuterExceptStatus("HTTP400")])
              /\ GotoR(t, "done")
         ELSE /\ SetReq(t, [NoRequest EXCEPT !.kind = "chat", !.message = m])
              /\ GotoR(t, "service")
    /\ running' = t
    /\ UNCHANGED <<mgrAll, _agent_instance, agent_tools, _session_service,
                   _runner_instance, app, apc, servicesConstructed,
                   runnersConstructed, sessionsCreated, eventsYielded>>

(* main.py:412-419 -- quick_compare is called; its message is never blank. *)
QuickBegin(t) ==
    /\ app = "serving"
    /\ running = NoTask
    /\ FreeSlot(t)
    /\ requests < MaxRequests
    /\ requests' = requests + 1
    /\ SetReq(t, [NoRequest EXCEPT !.kind = "quick", !.message = <<"a">>])
    /\ GotoR(t, "service")
    /\ running' = t
    /\ UNCHANGED <<mgrAll, _agent_instance, agent_tools, _session_service,
                   _runner_instance, app, apc, servicesConstructed,
                   runnersConstructed, sessionsCreated, eventsYielded>>

(* main.py:391-396, called at 471 and 423 -- get_shared_session_service.   *)
GetSessionService(t) ==
    /\ running = t
    /\ rpc[t] = "service"
    /\ IF _session_service = None
       THEN /\ _session_service' = servicesConstructed + 1
            /\ servicesConstructed' = servicesConstructed + 1
       ELSE UNCHANGED <<_session_service, servicesConstructed>>
    /\ SetReq(t, [req[t] EXCEPT !.service = _session_service'])
    /\ GotoR(t, "runner")
    /\ UNCHANGED <<mgrAll, _agent_instance, agent_tools, _runner_instance, app,
                   running, apc, requests, runnersConstructed, sessionsCreated, eventsYielded>>

(* main.py:398-402 and 409, called at 472 and 424 -- get_shared_runner:    *)
(* return the cached runner, or resolve the agent to build one.            *)
GetRunnerNoCache(t) ==
    /\ running = t
    /\ rpc[t] = "runner"
    /\ GotoR(t, "agent")
    /\ apc' = [apc EXCEPT ![t] = "check"]
    /\ UNCHANGED <<req, mgrAll, _agent_instance, agent_tools, _session_service,
                   _runner_instance, app, running, requests, servicesConstructed,
                   runnersConstructed, sessionsCreated, eventsYielded>>

GetRunner(t) ==
    /\ running = t
    /\ rpc[t] = "runner"
    /\ IF _runner_instance # None
       THEN /\ SetReq(t, [req[t] EXCEPT !.runner = _runner_instance])
            /\ GotoR(t, "session")
            /\ UNCHANGED apc
       ELSE /\ GotoR(t, "agent")
            /\ apc' = [apc EXCEPT ![t] = "check"]
            /\ UNCHANGED req
    /\ UNCHANGED <<mgrAll, _agent_instance, agent_tools, _session_service,
                   _runner_instance, app, running, requests, servicesConstructed,
                   runnersConstructed, sessionsCreated, eventsYielded>>

(* main.py:402-409 -- get_agent_async is back: if it raised, the exception *)
(* reaches the handler's except; else the session service is fetched       *)
(* again and Runner(...) is constructed, which may raise as well.          *)
RunnerBuild(t) ==
    /\ running = t
    /\ t # Lifespan
    /\ rpc[t] = "agent"
    /\ apc[t] \in {"return", "raise"}
    /\ apc' = [apc EXCEPT ![t] = "none"]
    /\ exc' = [exc EXCEPT ![t] = "none"]
    /\ IF apc[t] = "raise"
       THEN /\ Fail(t, exc[t])
            /\ UNCHANGED <<_session_service, servicesConstructed,
                           _runner_instance, runnersConstructed>>
       ELSE /\ IF _session_service = None
               THEN /\ _session_service' = servicesConstructed + 1
                    /\ servicesConstructed' = servicesConstructed + 1
               ELSE UNCHANGED <<_session_service, servicesConstructed>>
            /\ \E o \in {"ok", "raise"} :
                 IF o = "ok"
                 THEN /\ _runner_instance' = runnersConstructed + 1
                      /\ runnersConstructed' = runnersConstructed + 1
                      /\ SetReq(t, [req[t] EXCEPT !.runner = runnersConstructed + 1])
                      /\ GotoR(t, "session")
                      /\ running' = t
                 ELSE /\ Fail(t, "RunnerError")
                      /\ UNCHANGED <<_runner_instance, runnersConstructed>>
    /\ UNCHANGED <<mgrVars, envVars, pc, op, result, cleaned, histVars,
                   _agent_instance, agent_tools, app, requests,
                   sessionsCreated, eventsYielded>>

(* main.py:475-492 and 426-437 -- await create_session; then the buffer is *)
(* emptied and wait_for starts the event loop of the request, which        *)
(* suspends waiting for the first event.                                   *)
CreateSession(t) ==
    /\ running = t
    /\ rpc[t] = "session"
    /\ \E o \in {"ok", "raise"} :
         IF o = "ok"
         THEN /\ sessionsCreated' = sessionsCreated + 1
              /\ SetReq(t, [req[t] EXCEPT !.session = TRUE,
                                          !.response_text = <<>>,
                                          !.producer = "running"])
              /\ GotoR(t, "stream")
              /\ running' = NoTask
         ELSE /\ Fail(t, "SessionError")
              /\ UNCHANGED sessionsCreated
    /\ UNCHANGED <<mgrAll, _agent_instance, agent_tools, _session_service,
                   _runner_instance, app, apc, requests, servicesConstructed,
                   runnersConstructed, eventsYielded>>

(* What has become of the coroutine run_agent_with_events when wait_for    *)
(* is over: it ran to its end, it raised, or, on the deadline, wait_for    *)
(* cancelled it (asyncio.wait_for cancels the awaitable it was given       *)
(* before it raises TimeoutError).                                         *)
ProducerAfter(how) ==
    CASE how = "completed" -> "finished"
      [] how = "timedout" -> "cancelled"
      [] OTHER -> "failed"

(* The request ends with a body whose status is "success".                 *)
Succeed(t, how, text) ==
    /\ SetReq(t, [req[t] EXCEPT !.outcome = how, !.status = "success",
                                !.response = text,
                                !.producer = ProducerAfter(how)])
    /\ GotoR(t, "done")
    /\ running' = t

StreamFailedPropagates(t, e) == Fail(t, e)

(* main.py:534-551 -- an exception out of wait_for other than the timeout: *)
(* chat replaces the buffer by the error text and returns it; in           *)
(* quick_compare the exception reaches the handler of line 458.            *)
StreamFailed(t, e) ==
    IF req[t].kind = "chat"
    THEN Succeed(t, "failed", Finalize(ErrorMessage))
    ELSE Fail(t, e)

(* main.py:491-495 and 437-441 -- the runner yields one event: the async   *)
(* for binds it and the loop body starts.                                  *)
StreamEvent(t) ==
    /\ running = NoTask
    /\ rpc[t] = "stream"
    /\ eventsYielded < MaxEvents
    /\ eventsYielded' = eventsYielded + 1
    /\ \E event \in Events : SetReq(t, [req[t] EXCEPT !.event = event])
    /\ GotoR(t, "extract")
    /\ running' = t
    /\ UNCHANGED <<mgrAll, _agent_instance, agent_tools, _session_service,
                   _runner_instance, app, apc, requests, servicesConstructed,
                   runnersConstructed, sessionsCreated>>

(* main.py:496-522 and 442-445 -- the loop body handles the event in hand  *)
(* and the loop waits for the next one; an exception raised by the body    *)
(* leaves the coroutine and wait_for.                                      *)
StreamExtract(t) ==
    /\ running = t
    /\ rpc[t] = "extract"
    /\ LET x == IF req[t].kind = "chat" THEN ExtractChat(req[t].event)
                                        ELSE ExtractQuick(req[t].event)
       IN  IF x.raised
           THEN StreamFailed(t, "TypeError")
           ELSE /\ SetReq(t, [req[t] EXCEPT
                                !.response_text = req[t].response_text \o x.out,
                                !.event = NoEvent])
                /\ GotoR(t, "stream")
                /\ running' = NoTask
    /\ UNCHANGED <<mgrAll, _agent_instance, agent_tools, _session_service,
                   _runner_instance, app, apc, requests, servicesConstructed,
                   runnersConstructed, sessionsCreated, eventsYielded>>

(* The runner raises instead of yielding an event.                         *)
StreamRaise(t) ==
    /\ running = NoTask
    /\ rpc[t] = "stream"
    /\ StreamFailed(t, "StreamError")
    /\ UNCHANGED <<mgrAll, _agent_instance, agent_tools, _session_service,
                   _runner_instance, app, apc, requests, servicesConstructed,
                   runnersConstructed, sessionsCreated, eventsYielded>>

(* main.py:538-551 and 452-456 -- the stream ends before the deadline.     *)
StreamEnd(t) ==
    /\ running = NoTask
    /\ rpc[t] = "stream"
    /\ Succeed(t, "completed",
               IF req[t].kind = "chat" THEN Finalize(req[t].response_text)
                                       ELSE QuickFinalize(req[t].response_text))
    /\ UNCHANGED <<mgrAll, _agent_instance, agent_tools, _session_service,
                   _runner_instance, app, apc, requests,
                   servicesConstructed, runnersConstructed, sessionsCreated, eventsYielded>>

StreamTimeoutDetached(t) ==
    /\ running = NoTask
    /\ rpc[t] = "stream"
    /\ SetReq(t, [req[t] EXCEPT
                    !.outcome = "timedout", !.status = "success",
                    !.response = IF req[t].kind = "chat"
                                 THEN Finalize(OnTimeout(req[t].response_text))
                                 ELSE QuickFinalize(QuickOnTimeout(req[t].response_text))])
    /\ GotoR(t, "done")
    /\ running' = t
    /\ UNCHANGED <<mgrAll, _agent_instance, agent_tools, _session_service,
                   _runner_instance, app, apc, requests,
                   servicesConstructed, runnersConstructed, sessionsCreated, eventsYielded>>

(* main.py:526-532 and 447-450 -- the deadline of wait_for passes while    *)
(* the event loop of the request is suspended.                             *)
StreamTimeout(t) ==
    /\ running = NoTask
    /\ rpc[t] = "stream"
    /\ Succeed(t, "timedout",
               IF req[t].kind = "chat"
               THEN Finalize(OnTimeout(req[t].response_text))
               ELSE QuickFinalize(QuickOnTimeout(req[t].response_text)))
    /\ UNCHANGED <<mgrAll, _agent_instance, agent_tools, _session_service,
                   _runner_instance, app, apc, requests,
                   servicesConstructed, runnersConstructed, sessionsCreated, eventsYielded>>

(* The snapshot both diagnostic endpoints compute: lines 348-350 and 357,  *)
(* 370-372 and 381. They read the is_connected property and the            *)
(* _agent_instance global, and call nothing else.                          *)
(* main.py:30 and 57-59 -- the number of tool handles the resolved agent   *)
(* holds: tools is [toolset] or [].                                        *)
AgentHandles == IF agent_tools = None THEN 0 ELSE 1

SnapshotOfAgent(kind, status) ==
    [NoRequest EXCEPT
        !.kind = kind, !.outcome = "completed", !.status = status,
        !.mcp_connected = is_connected,
        !.tools_count = AgentHandles,
        !.agent_available = (_agent_instance # None)]

Snapshot(kind, status) ==
    [NoRequest EXCEPT
        !.kind = kind, !.outcome = "completed", !.status = status,
        !.mcp_connected = is_connected,
        !.tools_count = IF is_connected THEN 1 ELSE 0,
        !.agent_available = (_agent_instance # None)]

HealthCheckConnects(t) ==
    /\ app = "serving"
    /\ running = NoTask
    /\ FreeSlot(t)
    /\ SetReq(t, Snapshot("health", "healthy"))
    /\ GotoR(t, "done")
    /\ running' = t
    /\ _connection_attempted' = TRUE
    /\ UNCHANGED <<_toolset, _process, _connection_params, _is_connected,
                   _connection_lock, envVars, callVars, histVars,
                   _agent_instance, agent_tools, _session_service,
                   _runner_instance, app, apc, requests, servicesConstructed,
                   runnersConstructed, sessionsCreated, eventsYielded>>

(* main.py:345-364 -- health_check: no await in it suspends.               *)
HealthCheck(t) ==
    /\ app = "serving"
    /\ running = NoTask
    /\ FreeSlot(t)
    /\ SetReq(t, Snapshot("health", "healthy"))
    /\ GotoR(t, "done")
    /\ running' = t
    /\ UNCHANGED <<mgrAll, _agent_instance, agent_tools, _session_service,
                   _runner_instance, app, apc, requests, servicesConstructed,
                   runnersConstructed, sessionsCreated, eventsYielded>>

(* main.py:367-389 -- mcp_status.                                          *)
McpStatus(t) ==
    /\ app = "serving"
    /\ running = NoTask
    /\ FreeSlot(t)
    /\ SetReq(t, Snapshot("mcp_status", "none"))
    /\ GotoR(t, "done")
    /\ running' = t
    /\ UNCHANGED <<mgrAll, _agent_instance, agent_tools, _session_service,
                   _runner_instance, app, apc, requests, servicesConstructed,
                   runnersConstructed, sessionsCreated, eventsYielded>>

(* main.py:547-551, 557, 452-456, 459 -- the handler returns its body or   *)
(* lets its HTTPException out; the coroutine and its locals are gone.      *)
Return(t) ==
    /\ running = t
    /\ rpc[t] = "done"
    /\ GotoR(t, "idle")
    /\ SetReq(t, NoRequest)
    /\ running' = NoTask
    /\ UNCHANGED <<mgrAll, _agent_instance, agent_tools, _session_service,
                   _runner_instance, app, apc, requests, servicesConstructed,
                   runnersConstructed, sessionsCreated, eventsYielded>>

(* The steps of connect() and of the _cleanup it runs are made by the      *)
(* coroutine that has the event loop.                                      *)
NextChat ==
    \/ LifespanStart
    \/ LifespanYield
    \/ LifespanShutdown
    \/ LifespanStop
    \/ \E t \in Tasks :
        \/ AgentCheck(t)
        \/ AgentBuild(t)
        \/ running = t /\ ConnectAcquire(t)
        \/ running = t /\ ConnectCheck(t)
        \/ running = t /\ ConnectValidate(t)
        \/ running = t /\ ConnectParams(t)
        \/ running = t /\ ConnectToolset(t)
        \/ running = t /\ ConnectTest(t)
        \/ running = t /\ ConnectMark(t)
        \/ running = t /\ ConnectExcept(t)
        \/ running = t /\ ConnectRelease(t)
        \/ running = t /\ DisconnectAcquire(t)
        \/ running = t /\ DisconnectRelease(t)
        \/ running = t /\ CleanupProcess(t)
        \/ running = t /\ CleanupToolset(t)
        \/ running = t /\ CleanupProcRef(t)
        \/ running = t /\ CleanupParams(t)
        \/ running = t /\ CleanupConnected(t)
        \/ running = t /\ CleanupAttempted(t)
    \/ \E t \in Callers :
        \/ ChatBegin(t)
        \/ QuickBegin(t)
        \/ GetSessionService(t)
        \/ GetRunner(t)
        \/ RunnerBuild(t)
        \/ CreateSession(t)
        \/ StreamEvent(t)
        \/ StreamExtract(t)
        \/ StreamRaise(t)
        \/ StreamEnd(t)
        \/ StreamTimeout(t)
        \/ HealthCheck(t)
        \/ McpStatus(t)
        \/ Return(t)

SpecChat == Init /\ [][NextChat]_vars

(***************************************************************************)
(* Properties of the connection manager, checked under Spec.               *)
(***************************************************************************)

(* The caller is inside the body of connect() or disconnect(): it has      *)
(* acquired the lock and not yet released it.                              *)
InBody(p) == pc[p] \notin {"idle", "c_acquire", "d_acquire"}

(* ConnectionState as it is right after construction (lines 17-22).        *)
InitialState ==
    /\ _toolset = None
    /\ _connection_params = None
    /\ _is_connected = FALSE
    /\ _connection_attempted = FALSE

(* C1: as long as only connect() is called, at most one toolset is ever    *)
(* constructed, and all the non-None values connect() has returned are     *)
(* one and the same handle.                                                *)
C1_AtMostOneHandle ==
    ~everDisconnect =>
        /\ handlesConstructed <= 1
        /\ Cardinality(returnedHandles) <= 1
        /\ \A p \in Callers :
              (op[p] = "connect" /\ result[p] # None) => result[p] = 1

(* Two callers have both received the handle, with no disconnect() ever. *)
C1_Witness ==
    /\ ~everDisconnect
    /\ handlesConstructed = 1
    /\ \E p, q \in Callers :
          /\ p # q
          /\ pc[p] = "idle" /\ pc[q] = "idle"
          /\ result[p] = 1 /\ result[q] = 1

(* C2 (as claimed): a connect() made after a connect() ended fatally, with *)
(* no disconnect() called in between, goes no further than the checks of   *)
(* lines 28-35 and returns None.                                           *)
C2_LatchedAfterFatal ==
    \A p \in Callers :
        afterFatal[p] =>
            /\ pc[p] \in {"idle", "c_acquire", "c_check", "c_release"}
            /\ result[p] = None

(* C3 (as claimed): a connect() attempt whose try block raised the         *)
(* list-roots error returns a handle, leaves the manager connected and     *)
(* runs no cleanup.                                                        *)
C3_ToleratedIsSuccess ==
    \A p \in Callers :
        (op[p] = "connect" /\ pc[p] = "c_release" /\ IsTolerated(exc[p])) =>
            /\ result[p] # None
            /\ is_connected
            /\ ~cleaned[p]

(* C4: when disconnect() is about to return, ConnectionState is the        *)
(* initial one and no exception is in flight; so a second disconnect() in  *)
(* a row ends in the state the first one ended in.                         *)
C4_DisconnectIdempotent ==
    \A p \in Callers :
        pc[p] = "d_release" =>
            /\ InitialState
            /\ _process = None
            /\ exc[p] = "none"

(* A disconnect() is returning right after another disconnect() returned. *)
C4_Witness ==
    \E p \in Callers : pc[p] = "d_release" /\ discRun >= 1

(* C9 (as claimed): in every state, also inside connect() and _cleanup,    *)
(* the connected flag implies a handle.                                    *)
C9_FlagImpliesHandle == _is_connected => _toolset # None

(* _cleanup has cleared the handle (line 145) and not yet the flag         *)
(* (line 148).                                                             *)
MidCleanup == \E p \in Callers : pc[p] \in {"cl_procref", "cl_params", "cl_connected"}

(* C9 (amended): the connected flag implies a handle in every state        *)
(* except inside _cleanup between line 145 and line 148; the public        *)
(* is_connected implies a handle in every state.                           *)
C9_FlagImpliesHandleOutsideCleanup ==
    /\ (_is_connected /\ ~MidCleanup) => _toolset # None
    /\ is_connected => (_toolset # None /\ toolset = _toolset)

(* A cleanup is running on a connected manager, the handle not yet cleared. *)
C9_Witness ==
    \E p \in Callers : pc[p] = "cl_toolset" /\ _is_connected /\ _toolset # None

(* C10: at most one caller is inside the body of connect() or disconnect(), *)
(* and the lock is held exactly while one is.                              *)
C10_MutualExclusion ==
    /\ Cardinality({p \in Callers : InBody(p)}) <= 1
    /\ _connection_lock = (\E p \in Callers : InBody(p))

(* One caller is in the middle of an attempt while another waits for the lock. *)
C10_Witness ==
    \E p, q \in Callers :
        /\ pc[p] = "c_toolset"
        /\ pc[q] \in {"c_acquire", "d_acquire"}

(* A caller's call has run _cleanup to its end and has not yet left the    *)
(* lock: line 94 of connect() or the end of disconnect().                  *)
CleanupReturned(p) ==
    \/ pc[p] = "d_release"
    \/ pc[p] = "c_release" /\ cleaned[p]

(* C11: when _cleanup has run, from disconnect() or from the fatal path of *)
(* connect(), the toolset, the process reference, the parameters, the      *)
(* connected flag and the latch have their initial values, and the call    *)
(* that ran it carries no exception out of it: disconnect() has none, and  *)
(* connect() returns None.                                                 *)
C11_CleanupResets ==
    \A p \in Callers :
        CleanupReturned(p) =>
            /\ InitialState
            /\ _process = None
            /\ op[p] = "disconnect" => exc[p] = "none"
            /\ op[p] = "connect" => result[p] = None

(* A fatal connect() has just run _cleanup, after an earlier disconnect()  *)
(* had run it on a manager that held a handle.                             *)
C11_Witness ==
    /\ everDisconnect
    /\ handlesConstructed >= 1
    /\ \E p \in Callers :
          pc[p] = "c_release" /\ cleaned[p] /\ exc[p] # "none"

(* The handles whose subprocess has not been terminated.                   *)
LiveHandles == (1..handlesConstructed) \ terminated

(* C12 (as claimed): at most one handle is live at any time; the handle    *)
(* _cleanup dropped was terminated before the next one is constructed.     *)
C12_AtMostOneLive == Cardinality(LiveHandles) <= 1

(* C17: an attempt is past validation only when both secrets are set, and  *)
(* with a secret missing nothing is ever constructed and every connect()   *)
(* returns None, on the first attempt and on every later one.              *)
C17_ValidatedBeforeConstruct ==
    /\ \A p \in Callers :
          pc[p] \in {"c_params", "c_toolset", "c_test", "c_mark"}
              => api_token /\ browser_auth
    /\ (~api_token \/ ~browser_auth) =>
          /\ handlesConstructed = 0
          /\ _connection_params = None
          /\ _toolset = None
          /\ returnedHandles = {}
          /\ \A p \in Callers :
                (op[p] = "connect" /\ pc[p] = "c_release") => result[p] = None

(* With a secret missing, an attempt made after an earlier attempt had     *)
(* failed has been refused by validation in its turn.                      *)
C17_Witness ==
    /\ ~api_token \/ ~browser_auth
    /\ fatalSeen
    /\ \E p \in Callers :
          pc[p] = "c_release" /\ cleaned[p] /\ exc[p] = "ValueError"

(* The fields of ConnectionState and what connect() constructs.            *)
stateFields == <<_toolset, _process, _connection_params, _is_connected,
                 _connection_attempted, handlesConstructed>>

(* C19: a connect() that finds the manager connected at line 28 goes       *)
(* straight to its return with the existing toolset, and neither that step *)
(* nor its return changes a field of ConnectionState or constructs         *)
(* anything.                                                               *)
C19_ReuseLeavesState ==
    [][\A p \in Callers :
         /\ (pc[p] = "c_check" /\ is_connected /\ pc'[p] # "c_check") =>
                /\ pc'[p] = "c_release"
                /\ result'[p] = _toolset
                /\ UNCHANGED stateFields
         /\ (pc[p] = "c_release" /\ ~cleaned[p] /\ pc'[p] # "c_release") =>
                /\ pc'[p] = "idle"
                /\ result'[p] = result[p]
                /\ UNCHANGED stateFields]_vars

(* A connect() returns, without having constructed anything, the handle an *)
(* earlier connect() had constructed and returned.                         *)
C19_Witness ==
    /\ handlesConstructed = 1
    /\ returnedHandles = {1}
    /\ is_connected
    /\ \E p \in Callers : pc[p] = "c_release" /\ result[p] = 1

(* ConnectionState as it is after a successful connect().                  *)
ConnectedState ==
    /\ _toolset # None
    /\ _connection_params # None
    /\ _is_connected
    /\ _connection_attempted

C24_CallsReturn ==
    /\ \A p \in Callers : (pc[p] # "idle") ~> (pc[p] = "idle")
    /\ []((\A p \in Callers : pc[p] = "idle") => ~_connection_lock)

(* A connect() on its fatal path is inside _cleanup, holding the lock,     *)
(* while another call waits for the lock.                                  *)
C24_Witness ==
    \E p, q \in Callers :
        /\ op[p] = "connect"
        /\ pc[p] = "cl_attempted"
        /\ _connection_lock
        /\ pc[q] \in {"c_acquire", "d_acquire"}

(***************************************************************************)
(* Properties of the request layer, checked under SpecChat.                *)
(***************************************************************************)

(* The handler of slot t is about to return the result of a chat request.  *)
ChatDone(t) == rpc[t] = "done" /\ req[t].kind = "chat"

(* C5 (as claimed): a chat request with an empty or whitespace-only        *)
(* message ends as a client error, status 400, with no session created     *)
(* and no runner obtained for it.                                          *)
C5_BlankMessageIs400 ==
    \A t \in Callers :
        (ChatDone(t) /\ Strip(req[t].message) = <<>>) =>
            /\ req[t].status = "400"
            /\ ~req[t].session
            /\ req[t].runner = None

(* C6 (as claimed): a chat request that timed out returns "success"; its   *)
(* response is the timeout message if nothing was appended to the buffer,  *)
(* and otherwise the appended pieces, in order, followed by the timeout    *)
(* notice.                                                                 *)
C6_TimeoutKeepsPieces ==
    \A t \in Callers :
        (ChatDone(t) /\ req[t].outcome = "timedout") =>
            /\ req[t].status = "success"
            /\ req[t].response =
                 IF req[t].response_text = <<>>
                 THEN TimeoutMessage
                 ELSE LStrip(req[t].response_text) \o TimeoutNotice

(* C6 (amended): a chat request that timed out returns "success"; its      *)
(* response is the timeout message if the buffer is empty or holds only    *)
(* whitespace, and otherwise the buffer without its leading whitespace,    *)
(* followed by the timeout notice.                                         *)
C6_TimeoutKeepsNonBlank ==
    \A t \in Callers :
        (ChatDone(t) /\ req[t].outcome = "timedout") =>
            /\ req[t].status = "success"
            /\ req[t].response =
                 IF Strip(req[t].response_text) = <<>>
                 THEN TimeoutMessage
                 ELSE LStrip(req[t].response_text) \o TimeoutNotice

(* A chat request timed out after two pieces were appended, the first of   *)
(* them whitespace only.                                                   *)
C6_Witness ==
    \E t \in Callers :
        /\ ChatDone(t)
        /\ req[t].outcome = "timedout"
        /\ req[t].response_text = <<" ", "\n", "a", "\n">>

(* C7: a chat request whose stream ended before the deadline with nothing  *)
(* but whitespace in the buffer returns the fallback message, and no chat  *)
(* request returns a body with an empty response.                          *)
C7_FallbackOnSilence ==
    \A t \in Callers :
        ChatDone(t) =>
            /\ (req[t].outcome = "completed" /\ Strip(req[t].response_text) = <<>>)
                  => req[t].response = FallbackMessage
            /\ req[t].status = "success" => req[t].response # <<>>

(* The first request, a chat, completed after its stream yielded events    *)
(* that appended nothing.                                                  *)
C7_Witness ==
    \E t \in Callers :
        /\ ChatDone(t)
        /\ requests = 1
        /\ eventsYielded >= 1
        /\ req[t].outcome = "completed"
        /\ req[t].response_text = <<>>
        /\ req[t].response = FallbackMessage

(* C8: at most one session service and at most one runner are ever         *)
(* constructed; a request that has obtained a service or a runner has the  *)
(* shared one, the only one constructed.                                   *)
C8_SharedRunnerOnce ==
    /\ servicesConstructed <= 1
    /\ runnersConstructed <= 1
    /\ \A t \in Callers :
          /\ req[t].service # None =>
                (servicesConstructed = 1 /\ req[t].service = _session_service)
          /\ req[t].runner # None =>
                (runnersConstructed = 1 /\ req[t].runner = _runner_instance)

(* Two requests stream at the same time, on the same runner.               *)
C8_Witness ==
    \E t, u \in Callers :
        /\ t # u
        /\ rpc[t] = "stream" /\ rpc[u] = "stream"
        /\ req[t].runner = _runner_instance
        /\ req[u].runner = _runner_instance
        /\ req[t].kind = "chat" /\ req[u].kind = "quick"

(* The request of slot t has obtained a result and is about to return it.  *)
Done(t) == rpc[t] = "done"

(* The exceptions a failed connect() had caught.                           *)
ConnectionErrors == {"ValueError", "fatal", "tolerated"}

(* C13: a request served while connect() failed is not failed by that      *)
(* error: the handler never catches a connection error, and when the       *)
(* request goes on to its session and its stream an agent exists, built    *)
(* with no tools, and the request has the runner.                          *)
C13_ConnectionFailureDegrades ==
    \A t \in Callers :
        req[t].degraded =>
            /\ req[t].error \notin ConnectionErrors
            /\ rpc[t] \in {"session", "stream"} =>
                  /\ _agent_instance # None
                  /\ agent_tools = None
                  /\ req[t].runner # None

(* A request whose own connect() failed is streaming.                      *)
C13_Witness ==
    \E t \in Callers :
        /\ req[t].degraded
        /\ rpc[t] = "stream"
        /\ fatalSeen

SessionsHeld == sessionsCreated

(* The sessions held for requests that have returned.                      *)
SessionsOfCompleted ==
    SessionsHeld - Cardinality({t \in Callers : req[t].session})

(* C16 (as claimed): the sessions held for completed requests stay within  *)
(* a fixed bound (here one) however many requests have completed.          *)
C16_SessionsBounded == SessionsOfCompleted <= 1

(* The fields the diagnostic endpoints must leave alone.                   *)
diagFrame == <<mgrVars, envVars, callVars, histVars, _agent_instance,
               agent_tools, _session_service, _runner_instance, apc,
               servicesConstructed, runnersConstructed, sessionsCreated>>

(* C18: a call of health_check or mcp_status, from its start to its        *)
(* return, changes no field of the manager, starts no connect(), resolves  *)
(* no agent and constructs no runner; what it reports is the state it      *)
(* found.                                                                  *)
C18_DiagnosticsReadOnly ==
    [][\A t \in Callers :
         /\ (rpc[t] = "idle" /\ req'[t].kind \in {"health", "mcp_status"}) =>
                /\ UNCHANGED diagFrame
                /\ req'[t].mcp_connected = is_connected
                /\ req'[t].agent_available = (_agent_instance # None)
         /\ (req[t].kind \in {"health", "mcp_status"} /\ rpc'[t] # rpc[t]) =>
                UNCHANGED diagFrame]_vars

(* health_check reports a connected manager while a request is streaming.  *)
C18_Witness ==
    \E t, u \in Callers :
        /\ req[t].kind = "health"
        /\ Done(t)
        /\ req[t].mcp_connected
        /\ req[t].agent_available
        /\ rpc[u] = "stream"

(* C21 (as claimed): the loop bodies of chat and of quick_compare append   *)
(* the same text for the event in hand, whatever the event, so that the    *)
(* two accumulate the same buffer from the same stream.                    *)
C21_SameExtraction ==
    \A t \in Callers :
        rpc[t] = "extract" =>
            ExtractChat(req[t].event) = ExtractQuick(req[t].event)

(* The text each shape the branches of lines 500-522 test for gives, when  *)
(* the event carries that shape with a non-empty text.                     *)
ValueTexts(v) ==
    (IF v.tag = "parts" /\ PartsText(v.parts) # <<>>
     THEN {PartsText(v.parts)} ELSE {})
    \cup (IF v.tag \in {"text", "str"} /\ v.s # <<>>
          THEN {v.s \o <<"\n">>} ELSE {})

ShapeTexts(event) ==
    ValueTexts(event.content)
    \cup (IF event.message.tag = "content"
          THEN ValueTexts(ContentOf(event.message))
          ELSE ValueTexts(event.message))
    \cup (IF event.text.tag = "str" /\ event.text.s # <<>>
          THEN {event.text.s \o <<"\n">>} ELSE {})

(* The event has none of the shapes: no parts list, no text and no str     *)
(* under content, under message or its content, and no flat text.          *)
MatchesNone(event) ==
    /\ event.content.tag \notin {"parts", "text", "str"}
    /\ event.message.tag \notin {"parts", "text", "str"}
    /\ event.message.tag = "content" => event.message.inner \notin {"parts", "text", "str"}
    /\ event.text.tag # "str"

(* C22 (as claimed): when the loop body of chat has handled an event, the  *)
(* request is still streaming and the buffer is unchanged if the event had *)
(* none of the recognized shapes, and the buffer has grown by the text of  *)
(* a recognized shape the event carried with a non-empty text, whatever    *)
(* its other attributes.                                                   *)
C22_UnrecognizedIgnoredRecognizedAppended ==
    [][\A t \in Callers :
         (req[t].kind = "chat" /\ rpc[t] = "extract" /\ rpc'[t] # "extract") =>
            /\ MatchesNone(req[t].event) =>
                  /\ rpc'[t] = "stream"
                  /\ req'[t].response_text = req[t].response_text
            /\ \A x \in ShapeTexts(req[t].event) :
                  /\ rpc'[t] = "stream"
                  /\ req'[t].response_text = req[t].response_text \o x]_vars

(* C25: once get_agent_async has an agent, no coroutine starts a           *)
(* connect() and the agent and its tools stay what they are.               *)
C25_ResolvedAgentNeverReconnects ==
    [][_agent_instance # None =>
         /\ UNCHANGED <<_agent_instance, agent_tools>>
         /\ \A t \in Tasks : pc'[t] = "c_acquire" => pc[t] = "c_acquire"]_vars

(* A second request streams on an agent that was resolved with no tools.   *)
C25_Witness ==
    /\ _agent_instance # None
    /\ agent_tools = None
    /\ requests = 2
    /\ \E t \in Callers : rpc[t] = "stream"

(* C26 (as claimed): while the application serves, the tools_count that    *)
(* health_check reports is the number of handles the resolved agent holds. *)
C26_ToolsCountIsAgentHandles ==
    \A t \in Callers :
        (Done(t) /\ req[t].kind = "health" /\ _agent_instance # None) =>
            req[t].tools_count = AgentHandles

(* C26 (amended): tools_count is 1 when the manager is connected and 0     *)
(* when it is not; it is the number of handles the agent holds when the    *)
(* agent is the one of lines 57-258, built with the tools connect() gave.  *)
C26_ToolsCountIsManagerState ==
    \A t \in Callers :
        (Done(t) /\ req[t].kind = "health") =>
            /\ req[t].tools_count = (IF is_connected THEN 1 ELSE 0)
            /\ _agent_instance = FullAgent => req[t].tools_count = AgentHandles

(* health_check reports one tool for the full agent that holds the handle. *)
C26_Witness ==
    \E t \in Callers :
        /\ Done(t)
        /\ req[t].kind = "health"
        /\ _agent_instance = FullAgent
        /\ req[t].tools_count = 1
        /\ agent_tools # None

====
